---- MODULE Spec2Model ----
(***************************************************************************)
(* miniECS: EntityManager, Entity, System and the component factory        *)
(* compute, modelled as a state machine over a heap of JavaScript objects. *)
(*                                                                         *)
(* A JavaScript value is a record [t, v]: t is the result of typeof,       *)
(* except that null has its own tag (TypeOf maps it back to "object"),     *)
(* and v is a sequence of integers: <<n>> for the number n, the character  *)
(* codes of a string, <<address>> for an object of the heap.               *)
(* An object is the sequence of its own enumerable properties, in the      *)
(* order for-in, Object.assign and spread visit them.                      *)
(***************************************************************************)
EXTENDS Integers, Sequences, FiniteSets, TLC

\* ------------------------------------------------------------------ bounds
MaxEntities == 2
MaxSystems == 2
MaxAssigns == 2

\* ------------------------------------------------------------------ values
Undefined == [t |-> "undefined", v |-> <<>>]
Null == [t |-> "null", v |-> <<>>]
Fn == [t |-> "function", v |-> <<>>]
Num(n) == [t |-> "number", v |-> <<n>>]
Str(chars) == [t |-> "string", v |-> chars]
Ref(a) == [t |-> "ref", v |-> <<a>>]

\* typeof value
TypeOf(val) == IF val.t \in {"ref", "null"} THEN "object" ELSE val.t

\* value || 0 for a priority argument: undefined, null, 0 and "" are falsy
OrZero(val) ==
  IF val.t \in {"undefined", "null"} \/ val = Num(0) \/ val = Str(<<>>)
  THEN Num(0) ELSE val

\* ----------------------------------------------------------------- objects
\* Array-index property names, in ascending order: own property enumeration
\* lists them first, then the other names in the order they were created.
IndexKeys == <<"0", "1">>

IsIndexKey(k) == \E i \in 1..Len(IndexKeys) : IndexKeys[i] = k

IndexOfKey(k) == CHOOSE i \in 1..Len(IndexKeys) : IndexKeys[i] = k

\* Names every object inherits from Object.prototype (the ones in use here).
ObjectProtoNames == {"toString", "hasOwnProperty", "constructor"}

\* Names an entity inherits from Entity.prototype and Object.prototype.
EntityProtoNames == ObjectProtoNames \cup {"assign"}

Prop(k, val) == [k |-> k, v |-> val]

KeysOf(o) == [i \in 1..Len(o) |-> o[i].k]

KeySet(o) == {o[i].k : i \in 1..Len(o)}

HasOwn(o, k) == k \in KeySet(o)

\* o[k] on own properties
GetOwn(o, k) ==
  IF HasOwn(o, k) THEN o[CHOOSE i \in 1..Len(o) : o[i].k = k].v ELSE Undefined

\* Whether property name a is enumerated before the (new) name b.
KeyBefore(a, b) ==
  IF IsIndexKey(b)
  THEN IsIndexKey(a) /\ IndexOfKey(a) < IndexOfKey(b)
  ELSE TRUE

\* o[k] = val: an existing property keeps its place, a new one is created
\* after the properties enumerated before it.
Put(o, k, val) ==
  IF HasOwn(o, k)
  THEN [i \in 1..Len(o) |-> IF o[i].k = k THEN Prop(k, val) ELSE o[i]]
  ELSE LET n == Cardinality({i \in 1..Len(o) : KeyBefore(o[i].k, k)})
       IN SubSeq(o, 1, n) \o <<Prop(k, val)>> \o SubSeq(o, n + 1, Len(o))

\* ------------------------------------------------------------ object pool
\* The objects the calling code holds when the run starts, by address.
\* Addresses 1..3 are the manager and its two arrays (the arrays' elements
\* are the variables entities and systems); the rest are the object literals
\* the caller passes to assign and compute, first the containers, then the
\* fragments, options and defaults that mention them. The objects the
\* program allocates get the addresses after these.
MgrAddr == 1

Literals ==
  << <<Prop("entities", Ref(2)), Prop("systems", Ref(3))>>,   \* 1 manager
     <<>>,                                                    \* 2 entities
     <<>>,                                                    \* 3 systems
     <<Prop("a", Num(1)), Prop("b", Num(2))>>,                \* 4 {a:1,b:2}
     <<Prop("b", Num(3)), Prop("c", Num(4))>>,                \* 5 {b:3,c:4}
     <<Prop("p", Num(1))>>,                                   \* 6 {p:1}
     <<Prop("q", Num(2))>>,                                   \* 7 {q:2}
     <<Prop("a", Ref(6))>>,                                   \* 8 {a:{p:1}}
     <<Prop("a", Ref(7))>>,                                   \* 9 {a:{q:2}}
     <<Prop("position", Ref(4))>>,                            \* 10
     <<Prop("position", Ref(5))>>,                            \* 11
     <<Prop("position", Ref(8))>>,                            \* 12
     <<Prop("position", Ref(9))>>,                            \* 13
     <<Prop("position", Null)>>,                              \* 14
     <<Prop("position", Undefined)>>,                         \* 15
     <<Prop("position", Num(7))>>,                            \* 16
     <<Prop("velocity", Ref(4))>>,                            \* 17
     <<Prop("shape", Str(<<98, 111>>))>>,                     \* 18 "bo"
     <<Prop("entityManager", Ref(5))>>,                       \* 19
     <<Prop("position", Ref(5)), Prop("velocity", Num(5))>>,  \* 20
     <<Prop("p", Num(0)), Prop("q", Num(0))>>,                \* 21 {p:0,q:0}
     <<Prop("p", Num(9))>>,                                   \* 22 {p:9}
     <<Prop("x", Ref(21)), Prop("y", Num(1))>>,               \* 23 defaults
     <<Prop("y", Num(1)), Prop("x", Ref(21))>>,               \* 24 defaults
     <<Prop("s", Str(<<98, 111>>)), Prop("y", Num(1))>>,      \* 25 defaults
     <<Prop("x", Ref(8))>>,                                   \* 26 defaults
     <<Prop("x", Null), Prop("y", Num(1))>>,                  \* 27 defaults
     <<>>,                                                    \* 28 {}
     <<Prop("x", Ref(22))>>,                                  \* 29 options
     <<Prop("x", Num(5))>>,                                   \* 30
     <<Prop("y", Ref(22))>>,                                  \* 31
     <<Prop("y", Null)>>,                                     \* 32
     <<Prop("s", Ref(22))>>,                                  \* 33
     <<Prop("z", Num(1))>>,                                   \* 34
     <<Prop("toString", Num(1))>>,                            \* 35
     <<Prop("y", Num(2)), Prop("x", Ref(22))>>,               \* 36
     <<Prop("x", Ref(9))>>,                                   \* 37
     <<Prop("x", Null)>>,                                     \* 38
     <<Prop("y", Undefined)>>,                                \* 39
     <<Prop("velocity", Num(5))>>,                            \* 40 fragment
     <<Prop("x", Num(0)), Prop("y", Num(0))>>,                \* 41 {x:0,y:0}
     <<Prop("x", Num(1)), Prop("y", Num(-1))>>,               \* 42 {x:1,y:-1}
     <<Prop("position", Ref(41))>>,                           \* 43 fragment
     <<Prop("velocity", Ref(42))>>,                           \* 44 fragment
     <<Prop("x", Num(4)), Prop("y", Num(4))>>,                \* 45 {x:4,y:4}
     <<Prop("position", Ref(45)), Prop("velocity", Ref(42))>>,\* 46 defaults
     <<Prop("x", Num(8))>>,                                   \* 47 {x:8}
     <<Prop("position", Ref(47))>>                            \* 48 options
  >>

\* The fragments, the defaults and the options among the literals.
Fragments == 10..20

Defaults == 23..27

Options == 28..39

\* The object at address a of the heap h. The heap starts as the
\* literals, which are objects like the others: a write through a
\* reference changes them.
Deref(h, a) == h[a]

\* The address the next allocated object gets.
NextAddr(h) == Len(h) + 1

\* The own enumerable properties of a value, as spread and Object.assign
\* read them from a source: an object's properties, a string's characters,
\* nothing for undefined, null, a number or a function.
OwnProps(h, val) ==
  CASE val.t = "ref" -> Deref(h, val.v[1])
    [] val.t = "string" ->
         [i \in 1..Len(val.v) |-> Prop(IndexKeys[i], Str(<<val.v[i]>>))]
    [] OTHER -> <<>>

RECURSIVE PutAll(_, _)
\* Copies the properties ps, in order, onto the object o.
PutAll(o, ps) ==
  IF ps = <<>> THEN o
  ELSE PutAll(Put(o, Head(ps).k, Head(ps).v), Tail(ps))

\* Mutant of ObjectAssign: the properties of the first source win.
ObjectAssignFirstWins(h, a, b) ==
  PutAll(PutAll(<<>>, OwnProps(h, b)), OwnProps(h, a))

\* Object.assign({}, a, b) and { ...a, ...b }: a new object.
ObjectAssign(h, a, b) == PutAll(PutAll(<<>>, OwnProps(h, a)), OwnProps(h, b))

\* ------------------------------------------------------------------- state
VARIABLES
  heap,      \* the objects by address: the literals, then those allocated
  ent,       \* the Entity objects ever constructed, by entity id
  entities,  \* EntityManager.entities: entity ids, in registry order
  cleared,   \* the ids of the entities a pause() removed from the registry
  assigns,   \* number of assign calls made so far, where a run bounds them
  last,      \* the last call: its operation, arguments and the state before
  sys,       \* the System objects ever constructed, by system id
  systems,   \* EntityManager.systems: system ids, in registry order
  registered,\* the system ids in the order registerSystem was called
  pc,        \* 0 between ticks, else the position in systems update() is at
  tick,      \* the arguments and the start of the current (or last) tick
  invoked,   \* the _update calls of the current (or last) tick, in order
  comp,      \* the compute call: its arguments, and its result once made
  at,        \* where update() stands at systems[pc]: "loop", about to call
             \* its _update, or "forEach", inside the forEach of its update
  matched,   \* the array the getEntities() of the running update returned
  idx,       \* the number of elements of that array forEach has passed
  visited,   \* the entities the forEach callback was called with, in order
  thrown,    \* whether an error of a system ended the current (or last) tick
  by,        \* the system whose callback made the last call of this tick, or 0
  got        \* the last system.getEntities() call of the calling code

entVars == <<heap, ent, entities, cleared, last>>

sysVars == <<sys, systems, registered, pc, tick, invoked>>

runVars == <<at, matched, idx, visited, thrown, by>>

vars == <<entVars, sysVars, comp, assigns, runVars, got>>

NoCall == [op |-> "none", e |-> 0, args |-> <<>>, preEnt |-> <<>>, preReg |-> <<>>]

Call(op, e, args, preEnt, preReg) ==
  [op |-> op, e |-> e, args |-> args, preEnt |-> preEnt, preReg |-> preReg]

\* tick: the arguments of update, and the registry and the priorities (by
\* system id) as update found them.
NoTick == [delta |-> 0, time |-> 0, found |-> <<>>, prio |-> <<>>]

\* comp: the options (undefined when omitted) and the defaults of the
\* compute call, whether it has returned, and the addresses of the
\* fragments of the array it returned.
NoCompute == [options |-> Undefined, defaults |-> Undefined, done |-> FALSE,
              out |-> <<>>]

\* got: the system the call was made on (0: no call yet), whether it threw,
\* and the array it returned.
NoResult == [s |-> 0, err |-> FALSE, ids |-> <<>>]

\* No tick has run, and no system.getEntities() call was made.
InitRun ==
  /\ at = "loop"
  /\ matched = <<>>
  /\ idx = 0
  /\ visited = <<>>
  /\ thrown = FALSE
  /\ by = 0
  /\ got = NoResult

Init ==
  /\ heap = Literals
  /\ ent = <<>>
  /\ entities = <<>>
  /\ cleared = {}
  /\ assigns = 0
  /\ last = NoCall
  /\ sys = <<>>
  /\ systems = <<>>
  /\ registered = <<>>
  /\ pc = 0
  /\ tick = NoTick
  /\ invoked = <<>>
  /\ comp = NoCompute
  /\ InitRun

\* ------------------------------------------------------------------ Entity
\* new Entity(priority)
NewEntity(priority) ==
  <<Prop("entityManager", Null), Prop("priority", OrZero(priority))>>

\* this[key] on an entity: own properties, then the prototype chain.
EntityGet(o, key) ==
  IF HasOwn(o, key) THEN GetOwn(o, key)
  ELSE IF key \in EntityProtoNames THEN Fn ELSE Undefined

\* Mutant of AssignKey: Object.assign(this[key], component[key]), which
\* writes the incoming fields into the container the entity holds.
AssignKeyInPlace(o, h, key, cv) ==
  IF TypeOf(cv) = "object" /\ TypeOf(EntityGet(o, key)) = "object"
  THEN IF EntityGet(o, key).t = "ref"
       THEN [o |-> o,
             h |-> [h EXCEPT ![EntityGet(o, key).v[1]] =
                      ObjectAssign(h, EntityGet(o, key), cv)]]
       ELSE [o |-> Put(o, key, Ref(NextAddr(h))),
             h |-> Append(h, ObjectAssign(h, EntityGet(o, key), cv))]
  ELSE [o |-> Put(o, key, cv), h |-> h]

\* One iteration of the inner loop of assign: entity object o, heap h,
\* fragment value cv under key. Yields the entity object and the heap.
\* The empty container the else branch stores under a new name is
\* overwritten by the next statement and referenced by nothing else: it is
\* not allocated here.
AssignKey(o, h, key, cv) ==
  IF TypeOf(cv) = "object" /\ TypeOf(EntityGet(o, key)) = "object"
  THEN [o |-> Put(o, key, Ref(NextAddr(h))),
        h |-> Append(h, ObjectAssign(h, EntityGet(o, key), cv))]
  ELSE [o |-> Put(o, key, cv), h |-> h]

RECURSIVE AssignProps(_, _, _)
\* for (const key in component): the properties ps of one fragment, in order.
AssignProps(o, h, ps) ==
  IF ps = <<>> THEN [o |-> o, h |-> h]
  ELSE LET r == AssignKey(o, h, Head(ps).k, Head(ps).v)
       IN AssignProps(r.o, r.h, Tail(ps))

\* Mutant of AssignAll: only the first fragment is assigned.
AssignFirstOnly(o, h, fs) ==
  IF fs = <<>> THEN [o |-> o, h |-> h]
  ELSE AssignProps(o, h, Deref(h, Head(fs)))

RECURSIVE AssignAll(_, _, _)
\* for (const component of components): the fragments at the addresses fs.
AssignAll(o, h, fs) ==
  IF fs = <<>> THEN [o |-> o, h |-> h]
  ELSE LET r == AssignProps(o, h, Deref(h, Head(fs)))
       IN AssignAll(r.o, r.h, Tail(fs))

\* entity.assign(...components) on entity e
Assign(e, fs) ==
  LET r == AssignAll(ent[e], heap, fs) IN
  /\ heap' = r.h
  /\ ent' = [ent EXCEPT ![e] = r.o]
  /\ last' = Call("assign", e, fs, ent[e], entities)
  /\ UNCHANGED <<entities, cleared, sysVars, comp>>

\* ----------------------------------------------------------- EntityManager
\* Mutant of CreateEntity: an object pool, which hands out again the first
\* entity that is no longer in the registry before it makes a new one.
CreateEntityPooled(priority) ==
  LET free == {e \in 1..Len(ent) : \A i \in 1..Len(entities) : entities[i] # e} IN
  IF free = {}
  THEN /\ Len(ent) < MaxEntities
       /\ ent' = Append(ent, Put(NewEntity(priority), "entityManager", Ref(MgrAddr)))
       /\ entities' = Append(entities, Len(ent) + 1)
       /\ last' = Call("createEntity", Len(ent) + 1, <<>>, <<>>, entities)
       /\ UNCHANGED <<heap, cleared, sysVars, comp>>
  ELSE LET e == CHOOSE x \in free : \A y \in free : x <= y IN
       /\ entities' = Append(entities, e)
       /\ last' = Call("createEntity", e, <<>>, <<>>, entities)
       /\ UNCHANGED <<heap, ent, cleared, sysVars, comp>>

\* createEntity(priority)
CreateEntity(priority) ==
  /\ Len(ent) < MaxEntities
  /\ ent' = Append(ent, Put(NewEntity(priority), "entityManager", Ref(MgrAddr)))
  /\ entities' = Append(entities, Len(ent) + 1)
  /\ last' = Call("createEntity", Len(ent) + 1, <<>>, <<>>, entities)
  /\ UNCHANGED <<heap, cleared, sysVars, comp>>

\* Array.prototype.indexOf: the first position (from 0) of x in s, or -1.
IndexOf(s, x) ==
  IF \E i \in 1..Len(s) : s[i] = x
  THEN (CHOOSE i \in 1..Len(s) : s[i] = x /\ \A j \in 1..(i - 1) : s[j] # x) - 1
  ELSE -1

\* s.splice(index, 1): s without the element at position index (from 0).
Splice1(s, index) == SubSeq(s, 1, index) \o SubSeq(s, index + 2, Len(s))

\* Mutant of DestroyEntity: if (index) for if (index !== -1), so that the
\* position 0 is kept and splice(-1, 1) removes the last entity.
DestroyEntityTruthy(e) ==
  LET index == IndexOf(entities, e) IN
  /\ entities' = IF index = 0 THEN entities
                 ELSE IF index = -1 THEN SubSeq(entities, 1, Len(entities) - 1)
                 ELSE Splice1(entities, index)
  /\ last' = Call("destroyEntity", e, <<>>, <<>>, entities)
  /\ UNCHANGED <<heap, ent, cleared, sysVars, comp>>

\* destroyEntity(entity); the entity 0 is one this manager never created.
DestroyEntity(e) ==
  LET index == IndexOf(entities, e) IN
  /\ entities' = IF index # -1 THEN Splice1(entities, index) ELSE entities
  /\ last' = Call("destroyEntity", e, <<>>, <<>>, entities)
  /\ UNCHANGED <<heap, ent, cleared, sysVars, comp>>

\* Mutant of ComparePriority: b.priority - a.priority.
ComparePriorityDescending(pa, pb) == pb.v[1] - pa.v[1]

\* (a, b) => a.priority - b.priority, on the two priority values
ComparePriority(pa, pb) == pa.v[1] - pb.v[1]

RECURSIVE InsertBeforeEqual(_, _, _)
\* Mutant of InsertByPriority: x goes before the elements that compare
\* equal to it, as an unstable sort may leave it.
InsertBeforeEqual(s, x, prio) ==
  IF s = <<>> THEN <<x>>
  ELSE IF prio[s[Len(s)]].v[1] - prio[x].v[1] < 0 THEN Append(s, x)
  ELSE Append(InsertBeforeEqual(SubSeq(s, 1, Len(s) - 1), x, prio), s[Len(s)])

RECURSIVE InsertByPriority(_, _, _)
\* The sorted sequence s of ids with x inserted after every element that
\* does not compare greater than x: Array.prototype.sort is stable. prio
\* maps the ids to the priority values compared.
InsertByPriority(s, x, prio) ==
  IF s = <<>> THEN <<x>>
  ELSE IF ComparePriority(prio[s[Len(s)]], prio[x]) <= 0 THEN Append(s, x)
  ELSE Append(InsertByPriority(SubSeq(s, 1, Len(s) - 1), x, prio), s[Len(s)])

RECURSIVE SortByPriority(_, _)
\* s.sort((a, b) => a.priority - b.priority)
SortByPriority(s, prio) ==
  IF s = <<>> THEN <<>>
  ELSE InsertByPriority(SortByPriority(SubSeq(s, 1, Len(s) - 1), prio),
                        s[Len(s)], prio)

\* The priority of every entity, by entity id.
EntityPriorities == [i \in 1..Len(ent) |-> GetOwn(ent[i], "priority")]

\* sortEntities()
SortEntities ==
  /\ entities' = SortByPriority(entities, EntityPriorities)
  /\ last' = Call("sortEntities", 0, <<>>, <<>>, entities)
  /\ UNCHANGED <<heap, ent, cleared, sysVars, comp>>

\* Mutant of Pause: only the last entity is removed.
PausePop ==
  /\ entities' = SubSeq(entities, 1, Len(entities) - 1)
  /\ cleared' = cleared \cup {entities[i] : i \in {Len(entities)} \ {0}}
  /\ last' = Call("pause", 0, <<>>, <<>>, entities)
  /\ UNCHANGED <<heap, ent, sysVars, comp>>

\* pause()
Pause ==
  /\ entities' = <<>>
  /\ cleared' = cleared \cup {entities[i] : i \in 1..Len(entities)}
  /\ last' = Call("pause", 0, <<>>, <<>>, entities)
  /\ UNCHANGED <<heap, ent, sysVars, comp>>

\* Mutant of Every: query.some(...)
Some(query, entityProperties) ==
  \E i \in 1..Len(query) :
    \E j \in 1..Len(entityProperties) : entityProperties[j] = query[i]

\* query.every(prop => entityProperties.includes(prop))
Every(query, entityProperties) ==
  \A i \in 1..Len(query) :
    \E j \in 1..Len(entityProperties) : entityProperties[j] = query[i]

\* The filter callback of getEntities on entity object o.
Matches(o, query) == Every(query, KeysOf(o))

RECURSIVE Filter(_, _, _)
\* ids.filter(...) with the callback of getEntities
Filter(ids, obj, query) ==
  IF ids = <<>> THEN <<>>
  ELSE (IF Matches(obj[Head(ids)], query) THEN <<Head(ids)>> ELSE <<>>)
         \o Filter(Tail(ids), obj, query)

\* getEntities(query)
GetEntities(query) == Filter(entities, ent, query)

\* ------------------------------------------------------------------ System
\* A query argument: an array of names, or none given.
NoQuery == [given |-> FALSE, names |-> <<>>]

Query(names) == [given |-> TRUE, names |-> names]

\* The query on the prototype of a class: queries.movable on
\* MovableSystem.prototype, none on the others.
ProtoQuery(cls) ==
  IF cls = "MovableSystem" THEN Query(<<"position", "velocity">>) ELSE NoQuery

\* Mutant of SystemObject: the constructor sets query only when it is given
\* one, so that a query of the prototype shows through.
SystemObjectUnset(cls, priority, query) ==
  IF query.given
  THEN [cls |-> cls, given |-> TRUE, entityManager |-> Null,
        priority |-> OrZero(priority), query |-> query.names]
  ELSE [cls |-> cls, given |-> FALSE, entityManager |-> Null,
        priority |-> OrZero(priority)]

\* The object new cls(priority, query) makes: the constructor of System sets
\* the own properties entityManager, priority and query (an array is
\* truthy, also an empty one). cls is the class, whose prototype the object
\* inherits from; given records whether a query was passed.
SystemObject(cls, priority, query) ==
  [cls |-> cls, given |-> query.given, entityManager |-> Null,
   priority |-> OrZero(priority),
   query |-> IF query.given THEN query.names ELSE <<>>]

\* this.query on the system object o: the own property, else the prototype's.
ThisQuery(o) ==
  IF "query" \in DOMAIN o THEN Query(o.query) ELSE ProtoQuery(o.cls)

\* new cls(priority, query)
Construct(cls, priority, query) ==
  /\ pc = 0
  /\ Len(sys) < MaxSystems
  /\ sys' = Append(sys, SystemObject(cls, priority, query))
  /\ UNCHANGED <<entVars, systems, registered, pc, tick, invoked, comp>>

\* new System(priority, query)
NewSystem(priority, query) == Construct("System", priority, query)

\* system.priority = n, by the code that owns the system, between two ticks
SetPriority(s, n) ==
  /\ pc = 0
  /\ sys[s].priority # Num(n)
  /\ sys' = [sys EXCEPT ![s].priority = Num(n)]
  /\ UNCHANGED <<entVars, systems, registered, pc, tick, invoked, comp>>

\* registerSystem(system)
RegisterSystem(s) ==
  /\ pc = 0
  /\ Len(systems) < MaxSystems
  /\ sys' = [sys EXCEPT ![s].entityManager = Ref(MgrAddr)]
  /\ systems' = Append(systems, s)
  /\ registered' = Append(registered, s)
  /\ UNCHANGED <<entVars, pc, tick, invoked, comp>>

\* Mutant of SystemGetEntities: this.entityManager?.getEntities(...) || [],
\* which gives an unregistered system the empty array.
SystemGetEntitiesOptional(o) ==
  IF o.entityManager = Null
  THEN [err |-> FALSE, ids |-> <<>>]
  ELSE [err |-> ~ThisQuery(o).given, ids |-> GetEntities(ThisQuery(o).names)]

\* system.getEntities() on the system object o, in the current state:
\* this.entityManager.getEntities(this.query). Reading getEntities of the
\* null entityManager throws a TypeError, as query.every does for a query
\* that is undefined; err tells whether the call threw.
SystemGetEntities(o) ==
  IF o.entityManager = Null \/ ~ThisQuery(o).given
  THEN [err |-> TRUE, ids |-> <<>>]
  ELSE [err |-> FALSE, ids |-> GetEntities(ThisQuery(o).names)]

\* system.getEntities() called by the code that owns system s, between ticks
CallGetEntities(s) ==
  LET r == SystemGetEntities(sys[s]) IN
  /\ pc = 0
  /\ got' = [s |-> s, err |-> r.err, ids |-> r.ids]
  /\ UNCHANGED <<entVars, sysVars, comp, runVars>>

\* The priority of every system, by system id.
SystemPriorities == [i \in 1..Len(sys) |-> sys[i].priority]

\* update(delta, time), up to the first _update call: the sort.
Update(delta, time) ==
  /\ pc = 0
  /\ systems' = SortByPriority(systems, SystemPriorities)
  /\ tick' = [delta |-> delta, time |-> time, found |-> systems,
              prio |-> SystemPriorities]
  /\ invoked' = <<>>
  /\ pc' = IF systems = <<>> THEN 0 ELSE 1
  /\ at' = "loop" /\ matched' = <<>> /\ idx' = 0 /\ visited' = <<>>
  /\ thrown' = FALSE /\ by' = 0
  /\ UNCHANGED <<entVars, sys, registered, comp>>

\* System.update(delta, time) of the base class: nothing.
BaseUpdate(s, delta, time) ==
  UNCHANGED <<entVars, sys, registered, systems, tick, comp>>

\* The classes whose update is this.getEntities().forEach(callback):
\* MovableSystem, RendererSystem, and TemplateSystem, a system written
\* after the template of components.js whose callback calls the manager or
\* the entity.
HasForEach(cls) == cls \in {"MovableSystem", "RendererSystem", "TemplateSystem"}

\* The position of the for-of loop of update after systems[pc].
AfterSystem == IF pc = Len(systems) THEN 0 ELSE pc + 1

\* Mutant of Selected: the selection is made once in a tick, and the
\* systems that come later in the tick are given the array of the first.
SelectedCached(r) == IF matched # <<>> THEN matched ELSE r.ids

\* The array this.getEntities() gives the update of a system: the one the
\* call r returned, made anew by every call.
Selected(r) == r.ids

\* One turn of the loop of update: system._update(delta, time), which
\* forwards its arguments to the system's update. An update with a forEach
\* runs up to the first callback; an error it throws ends update.
SystemUpdate ==
  /\ pc \in 1..Len(systems)
  /\ at = "loop"
  /\ invoked' = Append(invoked, [s |-> systems[pc], delta |-> tick.delta,
                                 time |-> tick.time])
  /\ LET r == SystemGetEntities(sys[systems[pc]]) IN
     IF HasForEach(sys[systems[pc]].cls)
     THEN /\ matched' = Selected(r)
          /\ idx' = 0
          /\ visited' = <<>>
          /\ thrown' = r.err
          /\ at' = IF r.err \/ Selected(r) = <<>> THEN "loop" ELSE "forEach"
          /\ pc' = IF r.err THEN 0
                   ELSE IF Selected(r) = <<>> THEN AfterSystem ELSE pc
          /\ UNCHANGED <<entVars, sys, registered, systems, tick, comp, by>>
     ELSE /\ BaseUpdate(systems[pc], tick.delta, tick.time)
          /\ pc' = AfterSystem
          /\ UNCHANGED runVars

\* Mutant of Iterated: forEach walks the registry itself, as it is now.
IteratedRegistry ==
  IF pc \in 1..Len(systems)
  THEN GetEntities(ThisQuery(sys[systems[pc]]).names) ELSE <<>>

\* The array the forEach of the running update walks: the one its
\* getEntities() call returned, which filter made.
Iterated == matched

\* The forEach of a system of class cls is about to call its callback.
InForEach(cls) ==
  /\ pc \in 1..Len(systems)
  /\ at = "forEach"
  /\ idx < Len(Iterated)
  /\ sys[systems[pc]].cls = cls

\* The entity the callback is called with.
Current == Iterated[idx + 1]

\* forEach has called the callback with the current entity.
Visit ==
  /\ idx' = idx + 1
  /\ visited' = Append(visited, Current)
  /\ UNCHANGED <<at, matched, thrown>>

\* The callback of RendererSystem: drawBox or drawCircle, which read
\* entity.position.x and throw a TypeError when position is undefined or
\* null; what they draw is not part of this state.
RendererDraw ==
  /\ InForEach("RendererSystem")
  /\ IF EntityGet(ent[Current], "position").t \in {"undefined", "null"}
     THEN /\ thrown' = TRUE
          /\ pc' = 0
          /\ at' = "loop"
          /\ visited' = Append(visited, Current)
          /\ UNCHANGED <<entVars, sys, systems, registered, tick, invoked,
                         comp, matched, idx, by>>
     ELSE /\ Visit
          /\ UNCHANGED <<entVars, sysVars, comp, by>>

\* The size of the canvas, which the window gives, and SHAPE_SIZE.
CanvasWidth == 20

CanvasHeight == 20

ShapeSize == 25

\* The numbers of the moves are halves, as SHAPE_HALF_SIZE is 12.5; a
\* number value that is not whole holds its count of halves and the 2.
Halves(val) == IF Len(val.v) = 2 THEN val.v[1] ELSE 2 * val.v[1]

NumHalves(n) == IF n % 2 = 0 THEN Num(n \div 2) ELSE [t |-> "number", v |-> <<n, 2>>]

\* container[key] = val on the heap h, for the container at address a.
Write(h, a, key, val) == [h EXCEPT ![a] = Put(h[a], key, val)]

\* position[key] += velocity[key] * delta, then the two tests that wrap the
\* coordinate around the canvas of the given size: p and v are the
\* addresses of the position and the velocity container.
MoveAxis(h, p, v, key, delta, size) ==
  LET h1 == Write(h, p, key,
                  NumHalves(Halves(GetOwn(h[p], key))
                              + Halves(GetOwn(h[v], key)) * delta))
      h2 == IF Halves(GetOwn(h1[p], key)) > 2 * size + ShapeSize
            THEN Write(h1, p, key, NumHalves(-ShapeSize)) ELSE h1
  IN IF Halves(GetOwn(h2[p], key)) < -ShapeSize
     THEN Write(h2, p, key, NumHalves(2 * size + ShapeSize)) ELSE h2

\* The body of the callback of MovableSystem on the heap h. The source
\* adds to x and to y and then tests x and y; each statement reads and
\* writes one coordinate only, so the statements of x taken first, in
\* their order, and those of y after give the same heap.
Moved(h, p, v, delta) ==
  MoveAxis(MoveAxis(h, p, v, "x", delta, CanvasWidth), p, v, "y", delta,
           CanvasHeight)

\* The callback of MovableSystem: it writes into the position container
\* of the entity; reading .x of a position or a velocity that is undefined
\* or null throws a TypeError. The runs give these two fields containers
\* with the numbers x and y, or nothing.
MovableMove ==
  /\ InForEach("MovableSystem")
  /\ LET velocity == EntityGet(ent[Current], "velocity")
         position == EntityGet(ent[Current], "position")
     IN IF position.t # "ref" \/ velocity.t # "ref"
        THEN /\ thrown' = TRUE
             /\ pc' = 0
             /\ at' = "loop"
             /\ visited' = Append(visited, Current)
             /\ UNCHANGED <<entVars, sys, systems, registered, tick, invoked,
                            comp, matched, idx, by>>
        ELSE /\ heap' = Moved(heap, position.v[1], velocity.v[1], tick.delta)
             /\ Visit
             /\ UNCHANGED <<ent, entities, cleared, last, sysVars, comp, by>>

\* The callback of a TemplateSystem: entity.assign(...fs)
TemplateAssign(fs) ==
  /\ InForEach("TemplateSystem")
  /\ Assign(Current, fs)
  /\ Visit
  /\ by' = systems[pc]

\* The callback of a TemplateSystem: this.entityManager.destroyEntity(e),
\* for an entity e of the array it walks.
TemplateDestroy(e) ==
  /\ InForEach("TemplateSystem")
  /\ DestroyEntity(e)
  /\ Visit
  /\ by' = systems[pc]

\* The callback of a TemplateSystem: this.entityManager.createEntity()
TemplateCreate ==
  /\ InForEach("TemplateSystem")
  /\ CreateEntity(Undefined)
  /\ Visit
  /\ by' = systems[pc]

\* forEach has passed the last element: update of the system returns.
ForEachReturn ==
  /\ pc \in 1..Len(systems)
  /\ at = "forEach"
  /\ idx >= Len(Iterated)
  /\ at' = "loop"
  /\ pc' = AfterSystem
  /\ UNCHANGED <<entVars, sys, systems, registered, tick, invoked, comp,
                 matched, idx, visited, thrown, by>>

\* ----------------------------------------------------------------- compute
\* key in o, for a plain object o: own properties, then Object.prototype.
In(o, key) == HasOwn(o, key) \/ key \in ObjectProtoNames

\* val[key], for a plain object or a primitive val of the kinds in use.
Lookup(h, val, key) ==
  IF HasOwn(OwnProps(h, val), key) THEN GetOwn(OwnProps(h, val), key)
  ELSE IF val.t \in {"ref", "string", "number"} /\ key \in ObjectProtoNames
  THEN Fn ELSE Undefined

\* Mutant of ComputeKey: typeof defaults[key] decides, not typeof options[key].
ComputeKeyByDefault(c, h, defaults, key, val) ==
  IF In(c, key)
  THEN IF TypeOf(Lookup(h, defaults, key)) = "object"
       THEN [c |-> Put(c, key, Ref(NextAddr(h))),
             h |-> Append(h, ObjectAssign(h, Lookup(h, defaults, key), val))]
       ELSE [c |-> Put(c, key, val), h |-> h]
  ELSE [c |-> c, h |-> h]

\* One turn of the first loop of compute: the computed options c so far,
\* the heap h, the defaults, and the property (key, value) of the options.
ComputeKey(c, h, defaults, key, val) ==
  IF In(c, key)
  THEN IF TypeOf(val) = "object"
       THEN [c |-> Put(c, key, Ref(NextAddr(h))),
             h |-> Append(h, ObjectAssign(h, Lookup(h, defaults, key), val))]
       ELSE [c |-> Put(c, key, val), h |-> h]
  ELSE [c |-> c, h |-> h]

RECURSIVE ComputeOptions(_, _, _, _)
\* for (let key in options): the properties ps of the options, in order.
ComputeOptions(c, h, defaults, ps) ==
  IF ps = <<>> THEN [c |-> c, h |-> h]
  ELSE LET r == ComputeKey(c, h, defaults, Head(ps).k, Head(ps).v)
       IN ComputeOptions(r.c, r.h, defaults, Tail(ps))

RECURSIVE ExplodeLiteralKey(_, _)
\* Mutant of Explode: obj.push({ key: computedOptions[key] }), every
\* fragment under the name "key".
ExplodeLiteralKey(h, ps) ==
  IF ps = <<>> THEN [h |-> h, out |-> <<>>]
  ELSE LET r == ExplodeLiteralKey(Append(h, <<Prop("key", Head(ps).v)>>), Tail(ps))
       IN [h |-> r.h, out |-> <<NextAddr(h)>> \o r.out]

RECURSIVE Explode(_, _)
\* for (let key in computedOptions) obj.push({ [key]: computedOptions[key] })
\* yields the heap and the addresses pushed.
Explode(h, ps) ==
  IF ps = <<>> THEN [h |-> h, out |-> <<>>]
  ELSE LET r == Explode(Append(h, <<Head(ps)>>), Tail(ps))
       IN [h |-> r.h, out |-> <<NextAddr(h)>> \o r.out]

\* compute(options, defaults) on the heap h: the heap and the fragments.
\* computedOptions is local: it is dropped when compute returns.
ComputeResult(h, options, defaults) ==
  LET r == ComputeOptions(ObjectAssign(h, defaults, Undefined), h, defaults,
                          OwnProps(h, options))
  IN Explode(r.h, r.c)

\* The call compute(options, defaults).
Compute(options, defaults) ==
  LET r == ComputeResult(heap, options, defaults) IN
  /\ ~comp.done
  /\ heap' = r.h
  /\ comp' = [options |-> options, defaults |-> defaults, done |-> TRUE,
              out |-> r.out]
  /\ UNCHANGED <<ent, entities, cleared, last, sysVars>>

\* ---------------------------------------------------------- specifications
\* The priorities given to entities and systems; an omitted one is undefined.
Priorities == {0, 1}

PriorityArgs == {Undefined} \cup {Num(n) : n \in Priorities}

\* The argument lists of the assign calls: one fragment, or two.
AssignArgs ==
  {<<f>> : f \in Fragments} \cup
  {<<10, 17>>, <<17, 10>>, <<19, 10>>, <<14, 18>>, <<11, 11>>, <<20, 16>>}

\* The argument lists of the assign calls of the registry runs: none of
\* them merges containers, so that these runs allocate nothing.
RegistryAssignArgs == {<<15>>, <<18>>}

\* The queries systems are constructed with.
QueryArgs == {NoQuery}

\* The (delta, time) pairs the driver calls update with.
TickArgs == {<<16, 100>>, <<17, 117>>}

\* The registry of entities: every operation on it, in any order.
NextRegistry ==
  \/ \E p \in PriorityArgs : CreateEntity(p) /\ UNCHANGED <<assigns, runVars, got>>
  \/ \E e \in 0..Len(ent) : DestroyEntity(e) /\ UNCHANGED <<assigns, runVars, got>>
  \/ SortEntities /\ UNCHANGED <<assigns, runVars, got>>
  \/ Pause /\ UNCHANGED <<assigns, runVars, got>>
  \/ \E e \in 1..Len(ent), fs \in RegistryAssignArgs :
       Assign(e, fs) /\ UNCHANGED <<assigns, runVars, got>>

SpecRegistry == Init /\ [][NextRegistry]_vars

\* The systems and the tick: construction, registration and priority
\* changes between ticks, update and its calls of the systems.
NextTick ==
  \/ \E p \in PriorityArgs, q \in QueryArgs : NewSystem(p, q) /\ UNCHANGED <<assigns, runVars, got>>
  \/ \E s \in 1..Len(sys) : RegisterSystem(s) /\ UNCHANGED <<assigns, runVars, got>>
  \/ \E s \in 1..Len(sys), n \in Priorities : SetPriority(s, n) /\ UNCHANGED <<assigns, runVars, got>>
  \/ \E a \in TickArgs : Update(a[1], a[2]) /\ UNCHANGED <<assigns, got>>
  \/ SystemUpdate /\ UNCHANGED <<assigns, got>>

SpecTick == Init /\ [][NextTick]_vars

\* A run of compute: the arguments are chosen at the start.
InitCompute ==
  /\ heap = Literals /\ ent = <<>> /\ entities = <<>> /\ cleared = {}
  /\ assigns = 0 /\ last = NoCall
  /\ sys = <<>> /\ systems = <<>> /\ registered = <<>>
  /\ pc = 0 /\ tick = NoTick /\ invoked = <<>>
  /\ InitRun
  /\ comp \in {[options |-> o, defaults |-> Ref(d), done |-> FALSE, out |-> <<>>] :
                 o \in {Undefined} \cup {Ref(a) : a \in Options}, d \in Defaults}

NextCompute == Compute(comp.options, comp.defaults) /\ UNCHANGED <<assigns, runVars, got>>

SpecCompute == InitCompute /\ [][NextCompute]_vars

\* Entities and assign: at most MaxAssigns assign calls in a run, since a
\* call that merges containers allocates.
NextAssign ==
  \/ CreateEntity(Undefined) /\ UNCHANGED <<assigns, runVars, got>>
  \/ \E e \in 1..Len(ent), fs \in AssignArgs :
       /\ assigns < MaxAssigns
       /\ Assign(e, fs)
       /\ assigns' = assigns + 1
       /\ UNCHANGED <<runVars, got>>

SpecAssign == Init /\ [][NextAssign]_vars

\* Systems and their queries. The calling code constructs a MovableSystem
\* with no arguments, a MovableSystem with the query passed, and a System
\* with no arguments, in this order; it registers them in this order too,
\* each once, at any time after its construction, and asks them for their
\* entities between ticks. The entities get a position, or a position and
\* a velocity, as numbers: these assign calls allocate nothing.
QuerySystems ==
  << [cls |-> "MovableSystem", query |-> NoQuery],
     [cls |-> "MovableSystem", query |-> Query(<<"position", "velocity">>)],
     [cls |-> "System", query |-> NoQuery] >>

QueryAssignArgs == {<<16>>, <<16, 40>>}

NextQuery ==
  \/ /\ Len(sys) < Len(QuerySystems)
     /\ Construct(QuerySystems[Len(sys) + 1].cls, Undefined,
                  QuerySystems[Len(sys) + 1].query)
     /\ UNCHANGED <<assigns, runVars, got>>
  \/ /\ Len(systems) < Len(sys)
     /\ RegisterSystem(Len(systems) + 1)
     /\ UNCHANGED <<assigns, runVars, got>>
  \/ CreateEntity(Undefined) /\ UNCHANGED <<assigns, runVars, got>>
  \/ \E e \in 1..Len(ent), fs \in QueryAssignArgs :
       Assign(e, fs) /\ UNCHANGED <<assigns, runVars, got>>
  \/ \E s \in 1..Len(sys) : CallGetEntities(s) /\ UNCHANGED assigns

SpecQuery == Init /\ [][NextQuery]_vars

\* The whole world: entities and systems with a forEach in their update.
\* The setup code runs before ticking starts: it registers every system it
\* constructs before it goes on, as in
\* world.registerSystem(new RendererSystem()), one system of a kind, and
\* it creates, assigns and destroys entities. From the first update on the
\* driver only calls update, and the callbacks of the systems make the
\* calls on the manager and the entities.
WorldSystems ==
  { [cls |-> "TemplateSystem", query |-> NoQuery],
    [cls |-> "RendererSystem", query |-> NoQuery],
    [cls |-> "RendererSystem", query |-> Query(<<"position">>)] }

WorldAssignArgs == {<<16>>}

WorldTickArgs == {<<16, 100>>}

\* The setup code is running: update was never called.
Setup == pc = 0 /\ tick = NoTick

\* The setup code has constructed a system of the kind k.
Constructed(k) ==
  \E s \in 1..Len(sys) :
    sys[s].cls = k.cls /\ sys[s].given = k.query.given
      /\ sys[s].query = k.query.names

NextWorld ==
  \/ \E k \in WorldSystems :
       /\ Setup
       /\ Len(sys) = Len(systems)
       /\ ~Constructed(k)
       /\ Construct(k.cls, Undefined, k.query)
       /\ UNCHANGED <<assigns, runVars, got>>
  \/ /\ Setup
     /\ Len(systems) < Len(sys)
     /\ RegisterSystem(Len(systems) + 1)
     /\ UNCHANGED <<assigns, runVars, got>>
  \/ /\ Setup
     /\ CreateEntity(Undefined)
     /\ UNCHANGED <<assigns, runVars, got>>
  \/ \E e \in 1..Len(ent), fs \in WorldAssignArgs :
       /\ Setup
       /\ Assign(e, fs)
       /\ UNCHANGED <<assigns, runVars, got>>
  \/ \E e \in 1..Len(ent) :
       /\ Setup
       /\ DestroyEntity(e)
       /\ UNCHANGED <<assigns, runVars, got>>
  \/ /\ Setup
     /\ SortEntities
     /\ UNCHANGED <<assigns, runVars, got>>
  \/ /\ Setup
     /\ Pause
     /\ UNCHANGED <<assigns, runVars, got>>
  \/ \E a \in WorldTickArgs :
       /\ Len(sys) = Len(systems)
       /\ Update(a[1], a[2])
       /\ UNCHANGED <<assigns, got>>
  \/ SystemUpdate /\ UNCHANGED <<assigns, got>>
  \/ RendererDraw /\ UNCHANGED <<assigns, got>>
  \/ \E fs \in WorldAssignArgs : TemplateAssign(fs) /\ UNCHANGED <<assigns, got>>
  \/ \E e \in {matched[i] : i \in 1..Len(matched)} :
       TemplateDestroy(e) /\ UNCHANGED <<assigns, got>>
  \/ TemplateCreate /\ UNCHANGED <<assigns, got>>
  \/ ForEachReturn /\ UNCHANGED <<assigns, got>>

SpecWorld == Init /\ [][NextWorld]_vars

\* The factory pattern: entity.assign(...compute(options, defaults)) on an
\* entity that earlier assign calls may have given fields of the same
\* names, as a container, a number or null.
FactoryAssignArgs == {<<23>>, <<30>>, <<32>>}

NextFactory ==
  \/ Compute(comp.options, comp.defaults) /\ UNCHANGED <<assigns, runVars, got>>
  \/ CreateEntity(Undefined) /\ UNCHANGED <<assigns, runVars, got>>
  \/ \E e \in 1..Len(ent), fs \in FactoryAssignArgs :
       /\ assigns < MaxAssigns
       /\ ~comp.done
       /\ Assign(e, fs)
       /\ assigns' = assigns + 1
       /\ UNCHANGED <<runVars, got>>
  \/ \E e \in 1..Len(ent) :
       /\ assigns < MaxAssigns
       /\ comp.done
       /\ Assign(e, comp.out)
       /\ assigns' = assigns + 1
       /\ UNCHANGED <<runVars, got>>

SpecFactory == InitCompute /\ [][NextFactory]_vars

\* Moving entities. The setup code calls compute on the defaults
\* {position: {x:4,y:4}, velocity: {x:1,y:-1}}, with no options or with a
\* position, constructs a MovableSystem with or without its query and
\* registers it, and creates entities, to which it assigns the fragment
\* objects position and velocity, as Example 2 does, or the fragments
\* compute returned. Then the driver calls update again and again.
InitMove ==
  /\ heap = Literals /\ ent = <<>> /\ entities = <<>> /\ cleared = {}
  /\ assigns = 0 /\ last = NoCall
  /\ sys = <<>> /\ systems = <<>> /\ registered = <<>>
  /\ pc = 0 /\ tick = NoTick /\ invoked = <<>>
  /\ InitRun
  /\ comp \in {[options |-> o, defaults |-> Ref(46), done |-> FALSE, out |-> <<>>] :
                 o \in {Undefined, Ref(48)}}

MoveSystems ==
  { [cls |-> "MovableSystem", query |-> NoQuery],
    [cls |-> "MovableSystem", query |-> Query(<<"position", "velocity">>)] }

MoveAssignArgs == {<<43, 44>>}

NextMove ==
  \/ /\ Setup
     /\ Compute(comp.options, comp.defaults)
     /\ UNCHANGED <<assigns, runVars, got>>
  \/ \E k \in MoveSystems :
       /\ Setup
       /\ Len(sys) = Len(systems)
       /\ ~Constructed(k)
       /\ Construct(k.cls, Undefined, k.query)
       /\ UNCHANGED <<assigns, runVars, got>>
  \/ /\ Setup
     /\ Len(systems) < Len(sys)
     /\ RegisterSystem(Len(systems) + 1)
     /\ UNCHANGED <<assigns, runVars, got>>
  \/ /\ Setup
     /\ CreateEntity(Undefined)
     /\ UNCHANGED <<assigns, runVars, got>>
  \/ \E e \in 1..Len(ent), fs \in MoveAssignArgs :
       /\ Setup
       /\ assigns < MaxAssigns
       /\ Assign(e, fs)
       /\ assigns' = assigns + 1
       /\ UNCHANGED <<runVars, got>>
  \/ \E e \in 1..Len(ent) :
       /\ Setup
       /\ assigns < MaxAssigns
       /\ comp.done
       /\ Assign(e, comp.out)
       /\ assigns' = assigns + 1
       /\ UNCHANGED <<runVars, got>>
  \/ \E a \in WorldTickArgs :
       /\ Len(sys) = Len(systems)
       /\ Update(a[1], a[2])
       /\ UNCHANGED <<assigns, got>>
  \/ SystemUpdate /\ UNCHANGED <<assigns, got>>
  \/ MovableMove /\ UNCHANGED <<assigns, got>>
  \/ ForEachReturn /\ UNCHANGED <<assigns, got>>

SpecMove == InitMove /\ [][NextMove]_vars

\* ------------------------------------------------- claims: Entity.assign
\* The last call was assign, on entity last.e, with the fragments last.args.
Assigned == last.op = "assign"

\* The (key, value) pairs of the fragments of the last assign call, in the
\* order assign visits them.
RECURSIVE PropsOf(_)
PropsOf(fs) ==
  IF fs = <<>> THEN <<>> ELSE Deref(heap, Head(fs)) \o PropsOf(Tail(fs))

ArgProps == PropsOf(last.args)

\* The keys the last assign call named, and those it named exactly once.
ArgKeys == KeySet(ArgProps)

NamedOnce(k) == Cardinality({i \in 1..Len(ArgProps) : ArgProps[i].k = k}) = 1

\* A field-container: an object, which null is not.
IsContainer(val) == val.t = "ref"

\* C4: when the entity owns a container under k and the fragment's value for
\* k is a container, the field k afterwards is a container holding every key
\* of either, the incoming value on the keys the incoming container has and
\* the current value on the others; a nested container is the incoming one
\* itself, not a merge.
C4_ShallowOverlay ==
  Assigned =>
    \A k \in ArgKeys :
      LET cur == GetOwn(last.preEnt, k)
          inc == GetOwn(ArgProps, k)
          res == GetOwn(ent[last.e], k)
      IN (NamedOnce(k) /\ HasOwn(last.preEnt, k)
            /\ IsContainer(cur) /\ IsContainer(inc)) =>
           /\ IsContainer(res)
           /\ KeySet(OwnProps(heap, res)) =
                KeySet(OwnProps(heap, cur)) \cup KeySet(OwnProps(heap, inc))
           /\ \A j \in KeySet(OwnProps(heap, res)) :
                GetOwn(OwnProps(heap, res), j) =
                  IF HasOwn(OwnProps(heap, inc), j)
                  THEN GetOwn(OwnProps(heap, inc), j)
                  ELSE GetOwn(OwnProps(heap, cur), j)

\* C4 witness: {a:1,b:2} assigned {b:3,c:4} has given {a:1,b:3,c:4}.
C4_Witness ==
  /\ Assigned
  /\ last.args = <<11>>
  /\ GetOwn(last.preEnt, "position") = Ref(4)
  /\ IsContainer(GetOwn(ent[last.e], "position"))
  /\ OwnProps(heap, GetOwn(ent[last.e], "position")) =
       <<Prop("a", Num(1)), Prop("b", Num(3)), Prop("c", Num(4))>>

\* C4 witness of the nested case: {a:{p:1}} assigned {a:{q:2}} holds the
\* incoming {q:2} under a.
C4_WitnessNested ==
  /\ Assigned
  /\ last.args = <<13>>
  /\ GetOwn(last.preEnt, "position") = Ref(8)
  /\ OwnProps(heap, GetOwn(ent[last.e], "position")) = <<Prop("a", Ref(7))>>

\* C5: for a key k of a fragment, when the incoming or the current value is
\* not a container (a number, a string, undefined, null, or k not owned), the
\* entity afterwards owns k with the incoming value; the fields no fragment
\* names are unchanged.
C5_ReplaceOutright ==
  Assigned =>
    /\ \A k \in ArgKeys :
         LET cur == GetOwn(last.preEnt, k)
             inc == GetOwn(ArgProps, k)
         IN (NamedOnce(k) /\ (~IsContainer(inc) \/ ~HasOwn(last.preEnt, k)
                               \/ ~IsContainer(cur))) =>
              HasOwn(ent[last.e], k) /\ GetOwn(ent[last.e], k) = inc
    /\ \A k \in KeySet(last.preEnt) \ ArgKeys :
         HasOwn(ent[last.e], k) /\ GetOwn(ent[last.e], k) = GetOwn(last.preEnt, k)

\* The entity the last assign call acted on was fresh from createEntity.
FreshBefore ==
  /\ KeySet(last.preEnt) = {"entityManager", "priority"}
  /\ GetOwn(last.preEnt, "entityManager") = Ref(MgrAddr)

\* The last assign call had two fragments with disjoint key sets.
TwoDisjoint ==
  /\ Len(last.args) = 2
  /\ KeySet(Deref(heap, last.args[1])) \cap KeySet(Deref(heap, last.args[2])) = {}

\* C6 as stated: assign(F1, F2) with disjoint key sets on a fresh entity
\* gives an entity owning every field of F1 and F2 with the fragment's
\* value, whatever the field names and values.
C6_FreshUnionAnyName ==
  (Assigned /\ FreshBefore /\ TwoDisjoint) =>
    \A k \in ArgKeys :
      HasOwn(ent[last.e], k) /\ GetOwn(ent[last.e], k) = GetOwn(ArgProps, k)

\* C6 amended: the same for every field name but entityManager given an
\* object or null, which is merged with the manager the fresh entity holds.
C6_FreshUnion ==
  (Assigned /\ FreshBefore /\ TwoDisjoint) =>
    \A k \in ArgKeys :
      (k = "entityManager" /\ TypeOf(GetOwn(ArgProps, k)) = "object")
      \/ (HasOwn(ent[last.e], k) /\ GetOwn(ent[last.e], k) = GetOwn(ArgProps, k))

\* C6 witness: a fresh entity assigned a container fragment and another one.
C6_Witness ==
  /\ Assigned /\ FreshBefore /\ TwoDisjoint
  /\ last.args = <<10, 17>>
  /\ GetOwn(ent[last.e], "position") = Ref(4)
  /\ GetOwn(ent[last.e], "velocity") = Ref(4)

\* ------------------------------------------------ claims: the registry
\* The queries the claims are checked for.
Queries ==
  { <<>>, <<"position">>, <<"velocity">>, <<"shape">>, <<"priority">>,
    <<"position", "shape">>, <<"shape", "position", "shape">> }

Range(s) == {s[i] : i \in 1..Len(s)}

\* The elements of r are distinct and follow one another as they do in s.
OrderedWithin(r, s) ==
  \A i, j \in 1..Len(r) :
    i < j => \E a, b \in 1..Len(s) : a < b /\ s[a] = r[i] /\ s[b] = r[j]

\* C1: getEntities(Q) is the entities of the registry that own every name of
\* Q, in registry order, each once; a field counts whatever its value, and
\* the empty query gives the whole registry.
C1_GetEntitiesExact ==
  \A q \in Queries :
    LET r == GetEntities(q) IN
    /\ Range(r) = {id \in Range(entities) : \A n \in Range(q) : HasOwn(ent[id], n)}
    /\ Cardinality(Range(r)) = Len(r)
    /\ OrderedWithin(r, entities)
    /\ (q = <<>> => r = entities)

\* C1 witness: of two registered entities the one whose position is
\* undefined is selected by the query for position, the other one is not.
C1_Witness ==
  /\ Len(entities) = 2
  /\ HasOwn(ent[entities[2]], "position")
  /\ GetOwn(ent[entities[2]], "position") = Undefined
  /\ ~HasOwn(ent[entities[1]], "position")
  /\ GetEntities(<<"position">>) = <<entities[2]>>
  /\ GetEntities(<<>>) = entities

\* C9: after pause() every query returns the empty sequence; no entity a
\* pause removed is in the registry again; and createEntity puts the new
\* entity, and only it, at the end of the registry, where every query it
\* matches returns it.
C9_PauseThenCreate ==
  /\ last.op = "pause" => \A q \in Queries : GetEntities(q) = <<>>
  /\ Range(entities) \cap cleared = {}
  /\ last.op = "createEntity" =>
       /\ entities = Append(last.preReg, last.e)
       /\ last.e \notin Range(last.preReg) \cup cleared
       /\ \A q \in Queries :
            Matches(ent[last.e], q) => last.e \in Range(GetEntities(q))

\* C9 witness: a pause emptied a registry that held entities, and the
\* entity created afterwards is the registry.
C9_Witness ==
  /\ cleared # {}
  /\ last.op = "createEntity"
  /\ last.preReg = <<>>
  /\ GetEntities(<<>>) = <<last.e>>

\* C10: destroyEntity(e) has an outcome in every state (it raises no
\* error); it removes the first occurrence of e and keeps the others in
\* order, and leaves the registry as it was when e is not in it.
C10_DestroyEntity ==
  /\ \A e \in 0..Len(ent) : ENABLED DestroyEntity(e)
  /\ last.op = "destroyEntity" =>
       IF last.e \in Range(last.preReg)
       THEN \E i \in 1..Len(last.preReg) :
              /\ last.preReg[i] = last.e
              /\ \A j \in 1..(i - 1) : last.preReg[j] # last.e
              /\ entities = [j \in 1..(Len(last.preReg) - 1) |->
                               IF j < i THEN last.preReg[j] ELSE last.preReg[j + 1]]
       ELSE entities = last.preReg

\* C10 witness: an entity that a pause had removed was destroyed, and the
\* registry, which held another entity, is as it was.
C10_Witness ==
  /\ last.op = "destroyEntity"
  /\ last.e \in cleared
  /\ last.preReg # <<>>
  /\ entities = last.preReg

\* C10, the other cases: the first of several entities was removed; an
\* entity of another manager was destroyed; an entity was destroyed twice.
C10_WitnessRemoved ==
  /\ last.op = "destroyEntity"
  /\ Len(last.preReg) >= 2
  /\ last.preReg[1] = last.e
  /\ entities = Tail(last.preReg)

C10_WitnessForeign ==
  /\ last.op = "destroyEntity" /\ last.e = 0
  /\ last.preReg # <<>> /\ entities = last.preReg

C10_WitnessTwice ==
  /\ last.op = "destroyEntity"
  /\ last.e \in 1..Len(ent)
  /\ last.e \notin Range(last.preReg) \cup cleared
  /\ last.preReg # <<>> /\ entities = last.preReg

\* ---------------------------------------------------- claims: the tick
\* The position of the first registerSystem call for system s.
FirstRegistered(s) == IndexOf(registered, s)

\* C2: the systems of a tick are invoked in non-decreasing order of the
\* priority each had when update was called.
C2_PriorityOrder ==
  \A i, j \in 1..Len(invoked) :
    i < j => tick.prio[invoked[i].s].v[1] <= tick.prio[invoked[j].s].v[1]

\* C2 witness: a complete tick found the registry in the order an earlier
\* tick had sorted it into, the reverse of the registration, and invoked
\* the two systems in the reverse of that: their priorities were changed
\* between the two ticks.
C2_Witness ==
  /\ pc = 0
  /\ Len(invoked) = 2
  /\ tick.found = <<invoked[2].s, invoked[1].s>>
  /\ registered = <<invoked[1].s, invoked[2].s>>
  /\ tick.prio[invoked[1].s].v[1] < tick.prio[invoked[2].s].v[1]

\* C3 as stated: two systems of equal priority are invoked in the order of
\* their registration, on every tick.
C3_TiesByRegistration ==
  \A i, j \in 1..Len(invoked) :
    (i < j /\ invoked[i].s # invoked[j].s
       /\ tick.prio[invoked[i].s] = tick.prio[invoked[j].s]) =>
      FirstRegistered(invoked[i].s) < FirstRegistered(invoked[j].s)

\* C3 amended: two systems of equal priority are invoked in the order they
\* had in the registry when update was called: a complete tick invokes the
\* entries of that registry, each once, and entries of equal priority in
\* the order it held them.
C3_TiesByRegistryOrder ==
  (pc = 0 /\ invoked # <<>>) =>
    /\ Len(invoked) = Len(tick.found)
    /\ \E f \in [1..Len(invoked) -> 1..Len(invoked)] :
         /\ \A i, j \in 1..Len(invoked) : i # j => f[i] # f[j]
         /\ \A i \in 1..Len(invoked) : invoked[i].s = tick.found[f[i]]
         /\ \A i, j \in 1..Len(invoked) :
              (i < j /\ tick.prio[invoked[i].s] = tick.prio[invoked[j].s]) =>
                f[i] < f[j]

\* C3 witness: two systems of equal priority were invoked in the order the
\* registry held them, which an earlier tick had made the reverse of their
\* registration.
C3_Witness ==
  /\ pc = 0
  /\ Len(invoked) = 2
  /\ invoked[1].s # invoked[2].s
  /\ tick.prio[invoked[1].s] = tick.prio[invoked[2].s]
  /\ tick.found = <<invoked[1].s, invoked[2].s>>
  /\ registered = <<invoked[2].s, invoked[1].s>>

\* ------------------------------------------------------ claims: compute
\* The own properties of the options and the defaults of the compute call,
\* and the fragments it returned.
OptionProps == OwnProps(heap, comp.options)

DefaultProps == OwnProps(heap, comp.defaults)

Fragment(i) == Deref(heap, comp.out[i])

\* The value the returned fragments give the key k.
FragmentValue(k) ==
  GetOwn(Fragment(CHOOSE i \in 1..Len(comp.out) : HasOwn(Fragment(i), k)), k)

\* Two values are the same primitive or containers with the same properties.
SameValue(a, b) ==
  IF IsContainer(a) /\ IsContainer(b)
  THEN OwnProps(heap, a) = OwnProps(heap, b)
  ELSE a = b

\* C7: compute returns one single-key fragment per key of defaults, in the
\* order of defaults; no key of options that defaults lacks is in the
\* output; and a key options does not name carries its default value.
C7_OneFragmentPerDefault ==
  comp.done =>
    /\ Len(comp.out) = Len(DefaultProps)
    /\ \A i \in 1..Len(comp.out) : KeysOf(Fragment(i)) = <<DefaultProps[i].k>>
    /\ \A i \in 1..Len(comp.out) :
         KeySet(Fragment(i)) \cap (KeySet(OptionProps) \ KeySet(DefaultProps)) = {}
    /\ \A i \in 1..Len(comp.out) :
         \A k \in (KeySet(Fragment(i)) \cap KeySet(DefaultProps)) \ KeySet(OptionProps) :
           GetOwn(Fragment(i), k) = GetOwn(DefaultProps, k)

\* C8 as stated: for a key of options and defaults the default value
\* decides: over a container default the fragment holds the default's
\* container overlaid with the incoming value, over another default the
\* incoming value.
C8_DefaultDecides ==
  comp.done =>
    \A k \in KeySet(OptionProps) \cap KeySet(DefaultProps) :
      LET inc == GetOwn(OptionProps, k)
          def == GetOwn(DefaultProps, k)
          res == FragmentValue(k)
      IN IF IsContainer(def)
         THEN /\ IsContainer(res)
              /\ KeySet(OwnProps(heap, res)) =
                   KeySet(OwnProps(heap, def)) \cup KeySet(OwnProps(heap, inc))
              /\ \A j \in KeySet(OwnProps(heap, res)) :
                   GetOwn(OwnProps(heap, res), j) =
                     IF HasOwn(OwnProps(heap, inc), j)
                     THEN GetOwn(OwnProps(heap, inc), j)
                     ELSE GetOwn(OwnProps(heap, def), j)
         ELSE SameValue(res, inc)

\* C8 amended: the incoming value decides: when typeof gives "object" for it
\* (a container, or null) the fragment holds a new container with the own
\* properties of the default value (a container's fields, a string's
\* characters, none otherwise) overlaid one level with the incoming ones;
\* otherwise the fragment holds the incoming value.
C8_IncomingDecides ==
  comp.done =>
    \A k \in KeySet(OptionProps) \cap KeySet(DefaultProps) :
      LET inc == GetOwn(OptionProps, k)
          def == GetOwn(DefaultProps, k)
          res == FragmentValue(k)
      IN IF TypeOf(inc) = "object"
         THEN /\ IsContainer(res)
              /\ res \notin {inc, def}
              /\ KeySet(OwnProps(heap, res)) =
                   KeySet(OwnProps(heap, def)) \cup KeySet(OwnProps(heap, inc))
              /\ \A j \in KeySet(OwnProps(heap, res)) :
                   GetOwn(OwnProps(heap, res), j) =
                     IF HasOwn(OwnProps(heap, inc), j)
                     THEN GetOwn(OwnProps(heap, inc), j)
                     ELSE GetOwn(OwnProps(heap, def), j)
         ELSE res = inc

\* C8 witness: compute({x:{p:9}}, {x:{p:0,q:0}, y:1}) returned
\* [{x:{p:9,q:0}}, {y:1}].
C8_Witness ==
  /\ comp.done
  /\ comp.options = Ref(29) /\ comp.defaults = Ref(23)
  /\ Len(comp.out) = 2
  /\ KeysOf(Fragment(1)) = <<"x">>
  /\ OwnProps(heap, GetOwn(Fragment(1), "x")) = <<Prop("p", Num(9)), Prop("q", Num(0))>>
  /\ Fragment(2) = <<Prop("y", Num(1))>>

\* C8 witness of the other branch: a number given for a container default
\* replaced it.
C8_WitnessScalar ==
  /\ comp.done
  /\ comp.options = Ref(30) /\ comp.defaults = Ref(23)
  /\ Fragment(1) = <<Prop("x", Num(5))>>

\* ------------------------------------------- claims: systems and queries
\* System s was constructed from MovableSystem with no arguments and is
\* registered.
PlainMovable(s) ==
  /\ sys[s].cls = "MovableSystem"
  /\ ~sys[s].given
  /\ sys[s].entityManager # Null

\* C11: the getEntities() of a registered MovableSystem that was constructed
\* with no arguments returns only entities that own position and velocity.
C11_PrototypeQuery ==
  \A s \in 1..Len(sys) :
    PlainMovable(s) =>
      \A i \in 1..Len(SystemGetEntities(sys[s]).ids) :
        LET o == ent[SystemGetEntities(sys[s]).ids[i]]
        IN HasOwn(o, "position") /\ HasOwn(o, "velocity")

C19_SystemGetEntities ==
  [][got' # got =>
       /\ entities' = entities /\ systems' = systems /\ ent' = ent
       /\ IF sys[got'.s].entityManager = Null
          THEN got'.err /\ got'.ids = <<>>
          ELSE ~got'.err /\ got'.ids = GetEntities(sys[got'.s].query)]_vars

\* C19 witness: the call threw on a system before its registration, and
\* the system, registered since, now returns the one entity of two that
\* matches its query.
C19_Witness ==
  /\ got.s # 0
  /\ got.err
  /\ sys[got.s].entityManager # Null
  /\ Len(entities) = 2
  /\ Len(SystemGetEntities(sys[got.s]).ids) = 1

\* ------------------------------------------------------------------
\* claims: ticks over a world of entities and systems

\* The systems whose per-tick behaviour the tick has invoked, in order.
InvokedSystems == [i \in 1..Len(invoked) |-> invoked[i].s]

\* C12 as stated: when update(delta, time) has returned or thrown, every
\* entry of the registry, a system registered n times n times, was invoked
\* exactly once, in the order the sort left, with the delta and time of the
\* update call.
C12_EveryEntryOnce ==
  (pc = 0 /\ tick # NoTick) =>
    /\ InvokedSystems = SortByPriority(tick.found, tick.prio)
    /\ \A i \in 1..Len(invoked) :
         invoked[i].delta = tick.delta /\ invoked[i].time = tick.time

\* C14: an entity that is not in the registry, because destroyEntity (or
\* pause) removed it, is returned by no getEntities call made after any
\* later step, whatever the query.
C14_NoQueryVisibility ==
  [][\A e \in 1..Len(ent) :
       e \notin Range(entities) =>
         \A q \in Queries : e \notin Range(GetEntities(q))']_vars

\* C14 witness: in the middle of a tick a callback has just created an
\* entity, the only one the empty query returns: an entity that
\* destroyEntity removed earlier, and that has a position, is not returned.
C14_Witness ==
  /\ pc # 0
  /\ last.op = "createEntity"
  /\ \E e \in 1..Len(ent) :
       /\ e \notin Range(entities)
       /\ e \notin cleared
       /\ HasOwn(ent[e], "position")
       /\ GetEntities(<<>>) = <<last.e>>

\* C15 as stated: when the callback of a system's forEach has assigned to
\* an entity of its matched set, that entity was in the registry at the
\* time of the assign.
C15_MutatesRegisteredOnly ==
  (by # 0 /\ last.op = "assign") => last.e \in Range(last.preReg)

\* C16: when the update of a system has called getEntities() and its
\* forEach has not called the callback yet, the array it walks holds the
\* entities that are in the registry now and own every field of the
\* system's query now, in the order of the registry, whatever the systems
\* before it in the tick created, destroyed or assigned.
C16_LaterSystemSeesChanges ==
  (pc \in 1..Len(systems) /\ at = "forEach" /\ idx = 0) =>
    LET q == ThisQuery(sys[systems[pc]]).names IN
    /\ Range(matched) =
         {e \in Range(entities) : \A n \in Range(q) : HasOwn(ent[e], n)}
    /\ OrderedWithin(matched, entities)

\* C16 witness: the second system of the tick, whose query is position,
\* is about to walk an array that holds an entity which had no position
\* until the callback of the first system assigned one in this tick.
C16_Witness ==
  /\ pc = 2
  /\ at = "forEach"
  /\ idx = 0
  /\ by = systems[1]
  /\ sys[systems[2]].query = <<"position">>
  /\ last.op = "assign"
  /\ ~HasOwn(last.preEnt, "position")
  /\ last.e \in Range(matched)

\* C17 as stated: there is no copy-on-iterate protection, that is, the
\* array a system's forEach walks is the selection of the registry as it is
\* now, so that the callback's createEntity and destroyEntity calls change
\* it under the iteration.
C17_NoCopyOnIterate ==
  (pc \in 1..Len(systems) /\ at = "forEach") =>
    Iterated = GetEntities(ThisQuery(sys[systems[pc]]).names)

\* C17 amended: the entities the callback of a forEach has been called on
\* are the first idx entities of the array getEntities() returned, each
\* once and in its order; when forEach returns they are the whole array.
C17_VisitsEachOnce ==
  (pc \in 1..Len(systems) /\ at = "forEach") =>
    /\ idx <= Len(matched)
    /\ visited = SubSeq(matched, 1, idx)

\* C17 witness: forEach has called the callback on both entities of the
\* array, although the first call destroyed the first of them, which left
\* the second at the position of the registry already passed: the second
\* call found the registry without the first entity.
C17_Witness ==
  /\ pc \in 1..Len(systems)
  /\ at = "forEach"
  /\ by = systems[pc]
  /\ last.op = "destroyEntity"
  /\ Len(matched) = 2
  /\ last.preReg = <<matched[2]>>
  /\ idx = 2
  /\ visited = matched

\* ------------------------------------------------------------------
\* claims: the factory pattern

RECURSIVE ShowSame(_, _, _, _)
\* The value v1 of the heap h1 and the value v2 of the heap h2 show the
\* same: the same primitive, or containers with the same names in the same
\* order and values that show the same.
ShowSame(h1, v1, h2, v2) ==
  IF v1.t = "ref" /\ v2.t = "ref"
  THEN LET p1 == Deref(h1, v1.v[1])
           p2 == Deref(h2, v2.v[1])
       IN /\ KeysOf(p1) = KeysOf(p2)
          /\ \A i \in 1..Len(p1) : ShowSame(h1, p1[i].v, h2, p2[i].v)
  ELSE v1 = v2

\* The objects o1 and o2 have the same fields with values that show the same.
ShowSameFields(h1, o1, h2, o2) ==
  /\ KeysOf(o1) = KeysOf(o2)
  /\ \A i \in 1..Len(o1) : ShowSame(h1, o1[i].v, h2, o2[i].v)

\* computedOptions when the first loop of compute is done: the merged
\* mapping, all the keys in one object.
ComputedOptions(h, options, defaults) ==
  ComputeOptions(ObjectAssign(h, defaults, Undefined), h, defaults,
                 OwnProps(h, options))

\* C13: when an entity was assigned the fragments compute returned, spread
\* as the arguments of one assign call, its fields and their values are
\* those that the entity as it was before would have after the assign of
\* the single merged mapping.
C13_SpreadAsMerged ==
  (Assigned /\ comp.done /\ last.args = comp.out) =>
    LET m == ComputedOptions(heap, comp.options, comp.defaults)
        r == AssignProps(last.preEnt, m.h, m.c)
    IN ShowSameFields(heap, ent[last.e], r.h, r.o)

\* C13 witness: an entity that held the container {p:0,q:0} under x and 1
\* under y was assigned the two fragments of
\* compute({y: 2, x: {p: 9}}, {x: {p:0,q:0}, y: 1}): x is a new container
\* {p:9,q:0} and y is 2.
C13_Witness ==
  /\ Assigned /\ comp.done /\ last.args = comp.out
  /\ comp.options = Ref(36) /\ comp.defaults = Ref(23)
  /\ GetOwn(last.preEnt, "x") = Ref(21)
  /\ Len(last.args) = 2
  /\ OwnProps(heap, GetOwn(ent[last.e], "x")) = <<Prop("p", Num(9)), Prop("q", Num(0))>>
  /\ GetOwn(ent[last.e], "y") = Num(2)

\* ------------------------------------------------------------------
\* claims: assigning twice

\* Every value of the fragment at address f is a primitive or a container
\* of primitives.
OneLevel(f) ==
  \A i \in 1..Len(Deref(heap, f)) :
    LET val == Deref(heap, f)[i].v IN
    IsContainer(val) =>
      \A j \in 1..Len(OwnProps(heap, val)) : ~IsContainer(OwnProps(heap, val)[j].v)

\* C20 as stated: when an entity was assigned one fragment of primitives
\* and one-level containers, assigning the same fragment once more leaves
\* its field names and the values of its fields as they are.
C20_AssignTwice ==
  (Assigned /\ Len(last.args) = 1 /\ OneLevel(last.args[1])) =>
    LET r == AssignAll(ent[last.e], heap, last.args)
    IN ShowSameFields(heap, ent[last.e], r.h, r.o)

\* ------------------------------------------------------------------
\* claims: inputs and sharing

\* C21: no step of assign or compute changes an object that exists: the
\* fragments and their nested containers, the options, the defaults and
\* the containers the entities hold are as they were, and the objects
\* allocated are added after them. A field that assign merged, the entity
\* holding a container under a name that the call gave one container, is a
\* container allocated by the call.
C21_InputsUnchanged ==
  [][/\ Len(heap') >= Len(heap)
     /\ \A a \in 1..Len(heap) : heap'[a] = heap[a]
     /\ (last' # last /\ last'.op = "assign") =>
          \A k \in ArgKeys' :
            (NamedOnce(k)' /\ HasOwn(last'.preEnt, k)
               /\ IsContainer(GetOwn(last'.preEnt, k))
               /\ IsContainer(GetOwn(ArgProps', k))) =>
              /\ IsContainer(GetOwn(ent'[last'.e], k))
              /\ GetOwn(ent'[last'.e], k).v[1] \in (Len(heap) + 1)..Len(heap')]_vars

\* C21 witness: an entity that held the defaults' own container {p:0,q:0}
\* under x was assigned the fragments of a compute call whose x is a
\* container: x is a container allocated since, and the defaults, their
\* container and the options are the literals they were.
C21_Witness ==
  /\ Assigned /\ comp.done /\ last.args = comp.out
  /\ comp.defaults = Ref(23) /\ comp.options = Ref(29)
  /\ GetOwn(last.preEnt, "x") = Ref(21)
  /\ GetOwn(ent[last.e], "x").v[1] > Len(Literals)
  /\ \A a \in {21, 22, 23, 29} : heap[a] = Literals[a]

\* C22 as stated: when the callback of MovableSystem has moved an entity,
\* writing into its position container, every other entity shows the
\* fields and the values it showed before, and so does every literal: the
\* fragments, the defaults and their containers.
C22_NoSharedContainer ==
  [][(visited' # visited /\ heap' # heap) =>
       /\ \A e \in 1..Len(ent) \ {visited'[Len(visited')]} :
            ShowSameFields(heap, ent[e], heap', ent'[e])
       /\ \A a \in 1..Len(Literals) : heap'[a] = heap[a]]_vars

====
